---- MODULE Spec2Model ----
(***************************************************************************)
(* Team-credit backend: the Credits ledger and TeamMembers roster tables,  *)
(* and the invite, invalidate-credit and payment-webhook request handlers  *)
(* as state machines whose atomic steps are the individual store and       *)
(* provider calls.  Requests run concurrently (one handler invocation per  *)
(* request slot) against the shared remote tables.                         *)
(***************************************************************************)
EXTENDS Integers, Sequences, FiniteSets, TLC

\* ------------------------------------------------------------------ bounds
\* number of requests served beyond their first local checks
MaxRequests == 4
\* number of requests that arrive while another one is being served
MaxOverlaps == 1
\* total number of store / provider faults injected
MaxFaults == 1
\* largest credit count carried by a confirmation event
MaxCredits == 1
\* number of members the downstream flow moves out of Pending
MaxActivations == 1
\* largest balance of a Credits row the ledger operations are called on
MaxBalance == 2
\* largest team size the discount is computed for
MaxTeamSize == 1000
\* largest number of non-Pending members of a manager a purchase starts from
MaxTeam == 1

Procs == {"p1", "p2"}
Managers == {"m1@x.co", "m2@x.co"}
Emails == Managers \cup {"a@x.co", "not-an-email", "a@x"}

\* ------------------------------------------------------------ pure helpers
\* the characters of each address used as an input
Chars(e) ==
    CASE e = "m1@x.co" -> <<"m", "1", "@", "x", ".", "c", "o">>
      [] e = "m2@x.co" -> <<"m", "2", "@", "x", ".", "c", "o">>
      [] e = "a@x.co" -> <<"a", "@", "x", ".", "c", "o">>
      [] e = "a@x" -> <<"a", "@", "x">>
      [] e = "not-an-email" -> <<"n", "o", "t", "-", "a", "n", "-", "e", "m", "a", "i", "l">>
      [] OTHER -> <<>>

AlnumChars == {"a", "c", "e", "i", "l", "m", "n", "o", "t", "x", "1", "2"}
LocalChars == AlnumChars \cup {"_", ".", "+", "-"}
DomainChars == AlnumChars \cup {"-"}
TailChars == AlnumChars \cup {"-", "."}

AllIn(s, lo, hi, class) == \A k \in lo..hi : s[k] \in class

\* ^[a-zA-Z0-9_.+-]+@[a-zA-Z0-9-]+\.[a-zA-Z0-9-.]+$
is_valid_email(email) ==
    LET s == Chars(email)
        n == Len(s)
    IN \E i \in 2..n : \E j \in (i + 2)..(n - 1) :
          /\ s[i] = "@"
          /\ s[j] = "."
          /\ AllIn(s, 1, i - 1, LocalChars)
          /\ AllIn(s, i + 1, j - 1, DomainChars)
          /\ AllIn(s, j + 1, n, TailChars)

\* a duplicate check that never finds a pending invitation
is_team_member_already_invited_never(email, team_members) == FALSE

\* a duplicate test that passes over the rows that hold no credit
is_team_member_already_invited_holding(email, team_members) ==
    \E k \in 1..Len(team_members) :
        /\ team_members[k].email = email
        /\ team_members[k].status = "Pending"
        /\ team_members[k].credits >= 1

\* any(member.email == email and member.status == "Pending" and
\*     member.manager_email == manager_email); the list is the manager's own
is_team_member_already_invited(email, team_members) ==
    \E k \in 1..Len(team_members) :
        /\ team_members[k].email = email
        /\ team_members[k].status = "Pending"

\* next((member for member in items if member['team_member_email'] == email), None)
\* as an index into the list, 0 for None
FirstMatch(items, email) ==
    IF \E k \in 1..Len(items) : items[k].email = email
    THEN CHOOSE k \in 1..Len(items) :
            /\ items[k].email = email
            /\ \A h \in 1..(k - 1) : items[h].email # email
    ELSE 0

InsertAt(s, i, x) == SubSeq(s, 1, i - 1) \o <<x>> \o SubSeq(s, i, Len(s))

RemoveId(rows, id) == SelectSeq(rows, LAMBDA r : r.id # id)

\* except clauses that report every exception as 500
invite_except_masked(exc) == 500

\* the handler-level except clauses of invite_team_member: a TeamServiceError
\* keeps its status code, every other exception (an HTTPException raised
\* inside the try block included) is reported as 500
invite_except(exc) ==
    IF exc.type = "TeamServiceError" THEN exc.status_code ELSE 500

\* except clauses that report every exception as 500
invalidate_except_masked(exc) == 500

\* the except clauses of invalidate_credit_route: an HTTPException is
\* re-raised unchanged, every other exception is reported as 500
invalidate_except(exc) ==
    IF exc.type = "HTTPException" THEN exc.status_code ELSE 500

\* thresholds listed lowest first
DISCOUNTS_ascending == <<<<5, 20>>, <<15, 25>>, <<50, 30>>, <<100, 35>>>>

\* config.DISCOUNTS: (team size, rate) pairs in the order of the list, the
\* rates 0.35, 0.30, 0.25, 0.20 written in hundredths
DISCOUNTS == <<<<100, 35>>, <<50, 30>>, <<15, 25>>, <<5, 20>>>>

\* next((rate for size, rate in DISCOUNTS if team_size >= size), 0)
apply_discount(team_size) ==
    IF \E k \in 1..Len(DISCOUNTS) : team_size >= DISCOUNTS[k][1]
    THEN LET k == CHOOSE k \in 1..Len(DISCOUNTS) :
                    /\ team_size >= DISCOUNTS[k][1]
                    /\ \A h \in 1..(k - 1) : team_size < DISCOUNTS[h][1]
         IN DISCOUNTS[k][2]
    ELSE 0

\* the secret configured for webhook signatures, and the signature check of
\* stripe.Webhook.construct_event: the header must be signed with that secret
STRIPE_WEBHOOK_KEY == "whsec"
SignatureKeys == {"whsec", "forged"}
SignatureHeaders == {"none"} \cup SignatureKeys

\* a handler that takes every signature header for a good one
construct_event_unverified(sig_header) == TRUE

construct_event_ok(sig_header) == sig_header = STRIPE_WEBHOOK_KEY

EventTypes == {"checkout.session.completed", "payment_intent.created"}

\* a handler that credits on every event type
is_completed_event_any(type) == TRUE

\* routes/credit.py line 105: the one event type the handler acts on
is_completed_event(type) == type = "checkout.session.completed"

\* ------------------------------------------------------------------- state
VARIABLES
    credits,    \* Credits table: per manager, its rows, most recently written first
    roster,     \* TeamMembers table: per manager, its rows in index order
    pc,         \* per request slot: the next step of the handler
    req,        \* per request slot: the request being served
    loc,        \* per request slot: the handler's local variables
    hist,       \* per request slot: what the request did and how it ended
    started,    \* number of requests served beyond their first local checks
    overlaps,   \* number of requests that arrived while another one was served
    faults,     \* number of faults injected
    activations, \* number of members moved out of Pending
    granted     \* per manager: credits granted by completed confirmations

vars == <<credits, roster, pc, req, loc, hist, started, overlaps, faults, activations,
          granted>>

NoReq == [kind |-> "none", manager |-> "none", email |-> "none",
          amount |-> 0, sig |-> "none", type |-> "none", action |-> "none"]
NoLoc == [new |-> 0, row |-> 0, member_credits |-> 0, team_size |-> 0, discount |-> 0,
          price_per_credit |-> "none", unit_amount |-> 0]
NoTable == [m \in Managers |-> <<>>]
NoHist == [code |-> 0, detail |-> "none", alone |-> FALSE, faulted |-> FALSE,
           verified |-> FALSE, mailed |-> "no",
           pre_credits |-> NoTable, pre_roster |-> NoTable]

\* ManagerEmailIndex of Credits: a manager's rows, the one written last first
NewestFirst(row, rows) == <<row>> \o rows

\* a query that reads the index in ascending order: the oldest row
get_credits_ascending(m) ==
    IF credits[m] = <<>> THEN 0 ELSE credits[m][Len(credits[m])].credits

\* CreditsDB.get_credits on a successful query: the credits of the first row
\* of the descending index query, 0 when the manager has no row
get_credits(m) == IF credits[m] = <<>> THEN 0 ELSE credits[m][1].credits

Init ==
    /\ credits = NoTable
    /\ roster = NoTable
    /\ pc = [p \in Procs |-> "idle"]
    /\ req = [p \in Procs |-> NoReq]
    /\ loc = [p \in Procs |-> NoLoc]
    /\ hist = [p \in Procs |-> NoHist]
    /\ started = 0
    /\ overlaps = 0
    /\ faults = 0
    /\ activations = 0
    /\ granted = [m \in Managers |-> 0]

\* ---------------------------------------------------------- step plumbing
\* the outcomes a store or provider call may have at this point
FaultChoices == IF faults < MaxFaults THEN {FALSE, TRUE} ELSE {FALSE}

Fault(f) == faults' = faults + (IF f THEN 1 ELSE 0)

\* what is remembered of a running request once another slot has taken a
\* step: it is no longer uninterrupted
Interleaved(h) == [h EXCEPT !.alone = FALSE, !.pre_credits = NoTable,
                            !.pre_roster = NoTable]

\* a request that arrives while another one is served is not uninterrupted
Fresh == IF \E q \in Procs : pc[q] # "idle"
         THEN NoHist
         ELSE [NoHist EXCEPT !.alone = TRUE, !.pre_credits = credits,
                             !.pre_roster = roster]

\* slot p, serving request r, takes a step to `label` with locals l, and its
\* history becomes h; a request that had finished in another slot is forgotten
Step(p, label, r, l, h) ==
    /\ pc' = [pc EXCEPT ![p] = label]
    /\ req' = [q \in Procs |->
                 IF q = p THEN r ELSE IF pc[q] = "idle" THEN NoReq ELSE req[q]]
    /\ loc' = [loc EXCEPT ![p] = l]
    /\ hist' = [q \in Procs |->
                  IF q = p THEN h
                  ELSE IF pc[q] = "idle" THEN NoHist ELSE Interleaved(hist[q])]

\* requests are served by the first free slot
FirstIdle(p) == pc[p] = "idle" /\ (p = "p2" => pc["p1"] # "idle")

Busy == \E q \in Procs : pc[q] # "idle"

\* a request arrives at slot p; `served` tells whether it passes its first
\* local checks
Arrive(p, served) ==
    /\ FirstIdle(p)
    /\ served => started < MaxRequests
    /\ Busy => overlaps < MaxOverlaps
    /\ started' = started + (IF served THEN 1 ELSE 0)
    /\ overlaps' = overlaps + (IF Busy THEN 1 ELSE 0)

\* the handler of a request that has just arrived answers at once
Reject(p, r, code, detail) ==
    Step(p, "idle", r, NoLoc, [Fresh EXCEPT !.code = code, !.detail = detail])

\* the handler of slot p returns or raises: the response carries `code`
Respond(p, h, code, detail) ==
    Step(p, "idle", req[p], NoLoc, [h EXCEPT !.code = code, !.detail = detail])

\* the handler moves on to its next call
Goto(p, h, label) == Step(p, label, req[p], loc[p], h)

GotoWith(p, h, label, l) == Step(p, label, req[p], l, h)

Faulted(h, f) == [h EXCEPT !.faulted = h.faulted \/ f]

\* a TeamServiceError raised without its status code: the default, 500
TeamServiceError_default(status_code) ==
    [type |-> "TeamServiceError", status_code |-> 500]

TeamServiceError(status_code) == [type |-> "TeamServiceError", status_code |-> status_code]
HTTPException(status_code) == [type |-> "HTTPException", status_code |-> status_code]
PlainException == [type |-> "Exception", status_code |-> 0]

\* ------------------------------------------------------ invite_team_member
\* lines 161-172: the two local validations
invite_team_member(p, m, e) ==
    /\ Arrive(p, is_valid_email(e) /\ e # m)
    /\ LET r == [NoReq EXCEPT !.kind = "invite", !.manager = m, !.email = e]
       IN IF ~is_valid_email(e)
          THEN Reject(p, r, invite_except(TeamServiceError(400)), "Invalid email format")
          ELSE IF e = m
          THEN Reject(p, r, invite_except(TeamServiceError(400)),
                      "Manager cannot invite themselves")
          ELSE Step(p, "inv_members", r, NoLoc, Fresh)
    /\ UNCHANGED <<credits, roster, faults, activations, granted>>

\* a handler that goes from the duplicate check straight to the credit check
invite_get_team_members_no_mail(p) ==
    /\ pc[p] = "inv_members"
    /\ Fault(FALSE)
    /\ Goto(p, hist[p], "inv_check")
    /\ UNCHANGED <<credits, roster, started, overlaps, activations, granted>>

\* lines 174-180: load the manager's members, refuse a pending duplicate
invite_get_team_members(p) ==
    /\ pc[p] = "inv_members"
    /\ \E f \in FaultChoices :
        /\ Fault(f)
        /\ IF f
           THEN Respond(p, Faulted(hist[p], f), invite_except(PlainException),
                        "DynamoDB query failed")
           ELSE IF is_team_member_already_invited(req[p].email, roster[req[p].manager])
           THEN Respond(p, hist[p], invite_except(TeamServiceError(409)),
                        "is already invited")
           ELSE Goto(p, hist[p], "inv_mail")
    /\ UNCHANGED <<credits, roster, started, overlaps, activations, granted>>

\* send_mail, lines 113-143: a missing sender address raises ValueError, a
\* failure of the provider's send call is logged and swallowed
MailOutcomes == {"sent", "provider_error", "no_sender"}
send_mail_raises(outcome) == outcome = "no_sender"
send_mail_delivers(outcome) == outcome = "sent"

\* lines 182-191: send the invitation, wrapping what send_mail raises
invite_send_mail(p) ==
    /\ pc[p] = "inv_mail"
    /\ \E o \in MailOutcomes :
        /\ o # "sent" => faults < MaxFaults
        /\ Fault(o # "sent")
        /\ LET h == [hist[p] EXCEPT
                        !.mailed = IF send_mail_delivers(o) THEN "sent" ELSE "failed"]
           IN IF send_mail_raises(o)
              THEN Respond(p, h, invite_except(TeamServiceError(500)),
                           "Failed to send invitation email")
              ELSE Goto(p, h, "inv_check")
    /\ UNCHANGED <<credits, roster, started, overlaps, activations, granted>>

\* services get_credits, lines 78-94, and the check of lines 192-198: a failed
\* read is a balance of 0
invite_check_credits(p) ==
    /\ pc[p] = "inv_check"
    /\ \E f \in FaultChoices :
        /\ Fault(f)
        /\ LET current_credits == IF f THEN 0 ELSE get_credits(req[p].manager)
               h == Faulted(hist[p], f)
           IN IF current_credits < 1
              THEN Respond(p, h, invite_except(HTTPException(400)), "Not enough credits")
              ELSE Goto(p, h, "ucd_read")
    /\ UNCHANGED <<credits, roster, started, overlaps, activations, granted>>

\* a ledger call that is passed 0 whatever its caller books
Delta_Zero(p) == 0

\* an invite that passes 0 for the credit it spends
Delta_NoDebit(p) == IF req[p].kind = "invite" THEN 0 ELSE req[p].amount

\* the credits_purchased argument of the running update_credit_data call
Delta(p) == IF req[p].kind = "invite" THEN -1 ELSE req[p].amount

\* where TeamMembers may place a new row in the index order of the manager's
\* rows: the handler does not control it, and only the order among rows of
\* one address is ever observed (by FirstMatch)
Places(items, email) ==
    IF \E k \in 1..Len(items) : items[k].email = email
    THEN 1..(Len(items) + 1)
    ELSE {Len(items) + 1}

\* lines 200-212 and TeamMemberDB.create_team_member: put the member row
invite_save_team_member(p) ==
    /\ pc[p] = "inv_save"
    /\ \E f \in FaultChoices :
        /\ Fault(f)
        /\ IF f
           THEN /\ Respond(p, Faulted(hist[p], f), invite_except(TeamServiceError(500)),
                           "Failed to save team member")
                /\ roster' = roster
           ELSE \E i \in Places(roster[req[p].manager], req[p].email) :
                /\ roster' = [roster EXCEPT ![req[p].manager] =
                                 InsertAt(@, i, [id |-> Len(@) + 1,
                                                 email |-> req[p].email,
                                                 status |-> "Pending",
                                                 credits |-> 1])]
                /\ Respond(p, hist[p], 200, "invited")
    /\ UNCHANGED <<credits, started, overlaps, activations, granted>>

\* ------------------------------------------------------ update_credit_data
\* what the caller of the running ledger call does with an exception it raises
ledger_except(p) ==
    IF req[p].kind = "invite" THEN invite_except(PlainException)
    ELSE IF req[p].kind = "invalidate" THEN invalidate_except(PlainException)
    ELSE 500

\* where the caller continues once its ledger write has returned
AfterLedgerWrite(p) ==
    IF req[p].kind = "invite" THEN Goto(p, hist[p], "inv_save")
    ELSE IF req[p].kind = "invalidate" THEN Goto(p, hist[p], "ivd_mquery")
    ELSE Respond(p, hist[p], 200, "Credits updated successfully")

\* a handler that books a confirmation only if the manager has not been
\* granted its credits before
update_credit_data_once(p) ==
    /\ pc[p] = "ucd_read"
    /\ Fault(FALSE)
    /\ IF req[p].kind = "webhook" /\ granted[req[p].manager] >= req[p].amount
       THEN Respond(p, hist[p], 200, "Credits updated successfully")
       ELSE GotoWith(p, hist[p],
                     IF get_credits(req[p].manager) = 0 THEN "ucd_create" ELSE "ucd_query",
                     [loc[p] EXCEPT !.new = get_credits(req[p].manager) + Delta(p)])
    /\ UNCHANGED <<credits, roster, started, overlaps, activations, granted>>

\* services/credit.py lines 67-74: read the balance (CreditsDB.get_credits
\* answers 0 when its query fails), add, and pick create or update
update_credit_data(p) ==
    /\ pc[p] = "ucd_read"
    /\ \E f \in FaultChoices :
        /\ Fault(f)
        /\ LET current_credits == IF f THEN 0 ELSE get_credits(req[p].manager)
               new_total_credits == current_credits + Delta(p)
           IN GotoWith(p, Faulted(hist[p], f),
                       IF current_credits = 0 THEN "ucd_create" ELSE "ucd_query",
                       [loc[p] EXCEPT !.new = new_total_credits])
    /\ UNCHANGED <<credits, roster, started, overlaps, activations, granted>>

\* a ledger write that books the credits of a confirmation grants them
Grant(p, written) ==
    granted' = IF written /\ req[p].kind = "webhook"
               THEN [granted EXCEPT ![req[p].manager] = @ + req[p].amount]
               ELSE granted

\* CreditsDB.create_credits: put a new row under a fresh id
create_credits(p) ==
    /\ pc[p] = "ucd_create"
    /\ \E f \in FaultChoices :
        /\ Fault(f)
        /\ IF f
           THEN /\ Respond(p, Faulted(hist[p], f), ledger_except(p),
                           "Error creating credits record")
                /\ credits' = credits
           ELSE /\ credits' = [credits EXCEPT ![req[p].manager] =
                                  NewestFirst([id |-> Len(@) + 1, credits |-> loc[p].new], @)]
                /\ AfterLedgerWrite(p)
        /\ Grant(p, ~f)
    /\ UNCHANGED <<roster, started, overlaps, activations>>

\* a query step that does not test whether a row was found: the update_item
\* that follows then puts a row
update_credits_query_unchecked(p) ==
    /\ pc[p] = "ucd_query"
    /\ Fault(FALSE)
    /\ GotoWith(p, hist[p], "ucd_update",
                [loc[p] EXCEPT !.row = IF credits[req[p].manager] = <<>> THEN 1
                                       ELSE credits[req[p].manager][1].id])
    /\ UNCHANGED <<credits, roster, started, overlaps, activations, granted>>

\* CreditsDB.update_credits, the query: the id of the manager's first row
update_credits_query(p) ==
    /\ pc[p] = "ucd_query"
    /\ \E f \in FaultChoices :
        /\ Fault(f)
        /\ IF f
           THEN Respond(p, Faulted(hist[p], f), ledger_except(p), "Error updating credits")
           ELSE IF credits[req[p].manager] = <<>>
           THEN Respond(p, hist[p], ledger_except(p), "No existing record found to update")
           ELSE GotoWith(p, hist[p], "ucd_update",
                         [loc[p] EXCEPT !.row = credits[req[p].manager][1].id])
    /\ UNCHANGED <<credits, roster, started, overlaps, activations, granted>>

\* an update_item that leaves the table as it was
WriteRow_lost(rows, id, value) == rows

\* the row with this id carrying the new credits and a new last_updated
WriteRow(rows, id, value) ==
    NewestFirst([id |-> id, credits |-> value], RemoveId(rows, id))

\* CreditsDB.update_credits, the update_item on the id found
update_credits_update_item(p) ==
    /\ pc[p] = "ucd_update"
    /\ \E f \in FaultChoices :
        /\ Fault(f)
        /\ IF f
           THEN /\ Respond(p, Faulted(hist[p], f), ledger_except(p), "Error updating credits")
                /\ credits' = credits
           ELSE /\ credits' = [credits EXCEPT ![req[p].manager] =
                                  WriteRow(@, loc[p].row, loc[p].new)]
                /\ AfterLedgerWrite(p)
        /\ Grant(p, ~f)
    /\ UNCHANGED <<roster, started, overlaps, activations>>

\* ---------------------------------------------------------- stripe_webhook
\* routes/credit.py lines 83-118 up to the call of update_credit_data; the
\* request record holds what the handler has read of the payload: nothing
\* before the signature is verified, the session metadata only for a
\* completed checkout
stripe_webhook(p, sig_header, type, m, n) ==
    /\ Arrive(p, construct_event_ok(sig_header) /\ is_completed_event(type))
    /\ LET unread == [NoReq EXCEPT !.kind = "webhook", !.sig = sig_header]
           event == [unread EXCEPT !.type = type]
           session == [event EXCEPT !.manager = m, !.amount = n]
       IN IF sig_header = "none"
          THEN Reject(p, unread, 400, "Missing stripe-signature header")
          ELSE IF ~construct_event_ok(sig_header)
          THEN Reject(p, unread, 400, "Invalid signature")
          ELSE IF is_completed_event(type)
          THEN Step(p, "ucd_read", session, NoLoc, [Fresh EXCEPT !.verified = TRUE])
          ELSE Reject(p, event, 200, "Event not handled")
    /\ UNCHANGED <<credits, roster, faults, activations, granted>>

\* -------------------------------------------------------- invalidate_credit
\* invalidate_credit_route, lines 164-170: validate the address
invalidate_credit_route(p, m, e) ==
    /\ Arrive(p, is_valid_email(e))
    /\ LET r == [NoReq EXCEPT !.kind = "invalidate", !.manager = m, !.email = e]
       IN IF ~is_valid_email(e)
          THEN Reject(p, r, invalidate_except(HTTPException(400)), "Invalid email format")
          ELSE Step(p, "ivd_members", r, NoLoc, Fresh)
    /\ UNCHANGED <<credits, roster, faults, activations, granted>>

\* a status test that lets every member through
InvalidatableStatus_Any(status) == TRUE

\* line 119: the status a member must have for its credit to be invalidated
InvalidatableStatus(status) == status = "Pending"

\* a handler that does not look at the credits the member holds
invalidate_credit_any_credits(p) ==
    /\ pc[p] = "ivd_members"
    /\ Fault(FALSE)
    /\ LET team_members == roster[req[p].manager]
           k == FirstMatch(team_members, req[p].email)
       IN IF k = 0
          THEN Respond(p, hist[p], invalidate_except(HTTPException(404)),
                       "Team member not found")
          ELSE IF ~InvalidatableStatus(team_members[k].status)
          THEN Respond(p, hist[p], invalidate_except(HTTPException(400)),
                       "Cannot invalidate credits for team member with status")
          ELSE GotoWith(p, hist[p], "ivd_read",
                        [loc[p] EXCEPT !.member_credits = team_members[k].credits])
    /\ UNCHANGED <<credits, roster, started, overlaps, activations, granted>>

\* invalidate_credit, lines 109-122: find the member and check it
invalidate_credit(p) ==
    /\ pc[p] = "ivd_members"
    /\ \E f \in FaultChoices :
        /\ Fault(f)
        /\ LET team_members == roster[req[p].manager]
               k == FirstMatch(team_members, req[p].email)
           IN IF f
              THEN Respond(p, Faulted(hist[p], f), invalidate_except(PlainException),
                           "DynamoDB query failed")
              ELSE IF k = 0
              THEN Respond(p, hist[p], invalidate_except(HTTPException(404)),
                           "Team member not found")
              ELSE IF ~InvalidatableStatus(team_members[k].status)
              THEN Respond(p, hist[p], invalidate_except(HTTPException(400)),
                           "Cannot invalidate credits for team member with status")
              ELSE IF team_members[k].credits < 1
              THEN Respond(p, hist[p], invalidate_except(HTTPException(404)),
                           "No credits found for team member")
              ELSE GotoWith(p, hist[p], "ivd_read",
                            [loc[p] EXCEPT !.member_credits = team_members[k].credits])
    /\ UNCHANGED <<credits, roster, started, overlaps, activations, granted>>

\* a handler that hands the member one more credit instead of taking one
invalidate_read_credits_adding(p) ==
    /\ pc[p] = "ivd_read"
    /\ Fault(FALSE)
    /\ GotoWith(p, hist[p], "ucd_query",
                [loc[p] EXCEPT !.new = get_credits(req[p].manager) + 1,
                               !.member_credits = @ + 1])
    /\ UNCHANGED <<credits, roster, started, overlaps, activations, granted>>

\* lines 124-132: read the manager's balance, compute both new values
invalidate_read_credits(p) ==
    /\ pc[p] = "ivd_read"
    /\ \E f \in FaultChoices :
        /\ Fault(f)
        /\ LET current_credits == IF f THEN 0 ELSE get_credits(req[p].manager)
           IN GotoWith(p, Faulted(hist[p], f), "ucd_query",
                       [loc[p] EXCEPT !.new = current_credits + 1,
                                      !.member_credits = @ - 1])
    /\ UNCHANGED <<credits, roster, started, overlaps, activations, granted>>

\* TeamMemberDB.update_credits_in_members, the query and its checks
update_credits_in_members_query(p) ==
    /\ pc[p] = "ivd_mquery"
    /\ \E f \in FaultChoices :
        /\ Fault(f)
        /\ LET items == roster[req[p].manager]
               k == FirstMatch(items, req[p].email)
           IN IF f \/ k = 0 \/ loc[p].member_credits < 0
              THEN Respond(p, Faulted(hist[p], f), invalidate_except(PlainException),
                           "Failed to update credits")
              ELSE GotoWith(p, hist[p], "ivd_mupdate", [loc[p] EXCEPT !.row = items[k].id])
    /\ UNCHANGED <<credits, roster, started, overlaps, activations, granted>>

\* an update_item whose write is lost
SetMemberCredits_Lost(items, id, value) == items

\* the update_item of lines 105-114: the row with this id gets the credits
SetMemberCredits(items, id, value) ==
    [k \in 1..Len(items) |->
        IF items[k].id = id THEN [items[k] EXCEPT !.credits = value] ELSE items[k]]

\* a handler that takes the restored credit back when the member write fails
update_credits_in_members_update_item_compensating(p) ==
    /\ pc[p] = "ivd_mupdate"
    /\ \E f \in FaultChoices :
        /\ Fault(f)
        /\ IF f
           THEN /\ Respond(p, Faulted(hist[p], f), invalidate_except(PlainException),
                           "Failed to update credits")
                /\ roster' = roster
                /\ credits' = [credits EXCEPT ![req[p].manager] =
                                  WriteRow(@, @[1].id, loc[p].new - 1)]
           ELSE /\ roster' = [roster EXCEPT ![req[p].manager] =
                                 SetMemberCredits(@, loc[p].row, loc[p].member_credits)]
                /\ credits' = credits
                /\ Respond(p, hist[p], 200, "credit_invalidated")
    /\ UNCHANGED <<started, overlaps, activations, granted>>

\* TeamMemberDB.update_credits_in_members, the update_item, and the return
\* of invalidate_credit
update_credits_in_members_update_item(p) ==
    /\ pc[p] = "ivd_mupdate"
    /\ \E f \in FaultChoices :
        /\ Fault(f)
        /\ IF f
           THEN /\ Respond(p, Faulted(hist[p], f), invalidate_except(PlainException),
                           "Failed to update credits")
                /\ roster' = roster
           ELSE /\ roster' = [roster EXCEPT ![req[p].manager] =
                                 SetMemberCredits(@, loc[p].row, loc[p].member_credits)]
                /\ Respond(p, hist[p], 200, "credit_invalidated")
    /\ UNCHANGED <<credits, started, overlaps, activations, granted>>

\* -------------------------------------------------------- send_notification
\* what a notification request may carry: the route validates neither field
\* beyond their being non-empty
NotifyEmails == {"", "a@x.co"}
NotifyActions == {"", "upload_completed", "headshots_received", "other"}

ValueError == [type |-> "ValueError", status_code |-> 0]

\* the except clauses of send_notification: an HTTPException is re-raised, a
\* ValueError is 400, any other exception carries its status_code if it has one
send_notification_except(exc) ==
    IF exc.type = "HTTPException" THEN exc.status_code
    ELSE IF exc.type = "ValueError" THEN 400
    ELSE IF exc.type = "TeamServiceError" THEN exc.status_code
    ELSE 500

\* routes/team.py lines 81-83: both fields must be non-empty
send_notification(p, m, e, a) ==
    /\ Arrive(p, e # "" /\ a # "")
    /\ LET r == [NoReq EXCEPT !.kind = "notify", !.manager = m, !.email = e, !.action = a]
       IN IF e = "" \/ a = ""
          THEN Reject(p, r, send_notification_except(HTTPException(400)),
                      "Missing Team member email or action")
          ELSE Step(p, "ntf_members", r, NoLoc, Fresh)
    /\ UNCHANGED <<credits, roster, faults, activations, granted>>

\* a notification flow that moves the member it is about out of Pending
notify_manager_activating(p) ==
    /\ pc[p] = "ntf_members"
    /\ Fault(FALSE)
    /\ LET team_members == roster[req[p].manager]
           k == FirstMatch(team_members, req[p].email)
       IN IF k = 0
          THEN /\ Respond(p, hist[p], send_notification_except(TeamServiceError(404)),
                          "Team member not found for manager")
               /\ roster' = roster
          ELSE /\ Goto(p, hist[p], "ntf_mail")
               /\ roster' = [roster EXCEPT ![req[p].manager][k].status = "Active"]
    /\ UNCHANGED <<credits, started, overlaps, activations, granted>>

\* notify_manager, lines 239-254: load the manager's members, look for the
\* address, pick the text of the action
notify_manager(p) ==
    /\ pc[p] = "ntf_members"
    /\ \E f \in FaultChoices :
        /\ Fault(f)
        /\ LET team_members == roster[req[p].manager]
           IN IF f
              THEN Respond(p, Faulted(hist[p], f), send_notification_except(PlainException),
                           "DynamoDB query failed")
              ELSE IF ~\E k \in 1..Len(team_members) : team_members[k].email = req[p].email
              THEN Respond(p, hist[p], send_notification_except(TeamServiceError(404)),
                           "Team member not found for manager")
              ELSE IF req[p].action \notin {"upload_completed", "headshots_received"}
              THEN Respond(p, hist[p], send_notification_except(ValueError),
                           "Invalid action type.")
              ELSE Goto(p, hist[p], "ntf_mail")
    /\ UNCHANGED <<credits, roster, started, overlaps, activations, granted>>

\* line 256 and the return of the route: send_mail to the manager; a missing
\* sender address raises ValueError, a provider failure is swallowed
notify_send_mail(p) ==
    /\ pc[p] = "ntf_mail"
    /\ \E o \in MailOutcomes :
        /\ o # "sent" => faults < MaxFaults
        /\ Fault(o # "sent")
        /\ LET h == [hist[p] EXCEPT
                        !.mailed = IF send_mail_delivers(o) THEN "sent" ELSE "failed"]
           IN IF send_mail_raises(o)
              THEN Respond(p, h, send_notification_except(ValueError),
                           "Sender email address must be provided.")
              ELSE Respond(p, h, 200, "Notification sent")
    /\ UNCHANGED <<credits, roster, started, overlaps, activations, granted>>

\* ------------------------------------------------------------- environment
\* the downstream flow, outside these handlers, moves a member out of Pending
member_activates(m, k) ==
    /\ activations < MaxActivations
    /\ k \in 1..Len(roster[m])
    /\ roster[m][k].status = "Pending"
    /\ roster' = [roster EXCEPT ![m][k].status = "Active"]
    /\ activations' = activations + 1
    /\ req' = [q \in Procs |-> IF pc[q] = "idle" THEN NoReq ELSE req[q]]
    /\ hist' = [q \in Procs |-> IF pc[q] = "idle" THEN NoHist ELSE Interleaved(hist[q])]
    /\ UNCHANGED <<credits, pc, loc, started, overlaps, faults, granted>>

\* ------------------------------------------------------- ledger operations
\* CreditsDB.update_credits(manager_email, credits) called on its own: its
\* caller sees it return (200) or raise (500)
update_credits(p, m, v) ==
    /\ Arrive(p, TRUE)
    /\ Step(p, "ucd_query",
            [NoReq EXCEPT !.kind = "update_credits", !.manager = m, !.amount = v],
            [NoLoc EXCEPT !.new = v], Fresh)
    /\ UNCHANGED <<credits, roster, faults, activations, granted>>

\* the Credits tables the operation is called on: per manager no row or one
\* row of some balance
LedgerTables ==
    [Managers -> {<<>>} \cup {<<[id |-> 1, credits |-> c]>> : c \in 0..MaxBalance}]

LedgerInit ==
    /\ credits \in LedgerTables
    /\ roster = NoTable
    /\ pc = [p \in Procs |-> "idle"]
    /\ req = [p \in Procs |-> NoReq]
    /\ loc = [p \in Procs |-> NoLoc]
    /\ hist = [p \in Procs |-> NoHist]
    /\ started = 0
    /\ overlaps = 0
    /\ faults = 0
    /\ activations = 0
    /\ granted = [m \in Managers |-> get_credits(m)]

LedgerNext ==
    \/ \E p \in Procs, m \in Managers, v \in -1..MaxBalance : update_credits(p, m, v)
    \/ \E p \in Procs : update_credits_query(p)
    \/ \E p \in Procs : update_credits_update_item(p)

LedgerSpec == LedgerInit /\ [][LedgerNext]_vars

\* ----------------------------------------------- price of a credit (doubles)
\* natural numbers of any size: little-endian sequences of limbs below 2^15,
\* without leading zero limbs
RECURSIVE Pow2(_)
Pow2(k) == IF k = 0 THEN 1 ELSE 2 * Pow2(k - 1)

LimbBase == Pow2(15)

RECURSIVE Pow10(_)
Pow10(k) == IF k = 0 THEN 1 ELSE 10 * Pow10(k - 1)

RECURSIVE ToLimbs(_)
ToLimbs(n) == IF n = 0 THEN <<>> ELSE <<n % LimbBase>> \o ToLimbs(n \div LimbBase)

RECURSIVE ToInt(_)
ToInt(a) == IF a = <<>> THEN 0 ELSE a[1] + LimbBase * ToInt(Tail(a))

RECURSIVE Normal(_)
Normal(a) ==
    IF a = <<>> \/ a[Len(a)] # 0 THEN a ELSE Normal(SubSeq(a, 1, Len(a) - 1))

Limb(a, i) == IF i \in 1..Len(a) THEN a[i] ELSE 0

RECURSIVE BitLenInt(_)
BitLenInt(n) == IF n = 0 THEN 0 ELSE 1 + BitLenInt(n \div 2)

BitLen(a) == IF a = <<>> THEN 0 ELSE 15 * (Len(a) - 1) + BitLenInt(a[Len(a)])

\* a + b, with the carry into limb i
RECURSIVE AddFrom(_, _, _, _)
AddFrom(a, b, i, carry) ==
    IF i > Len(a) /\ i > Len(b)
    THEN (IF carry = 0 THEN <<>> ELSE <<carry>>)
    ELSE LET t == Limb(a, i) + Limb(b, i) + carry
         IN <<t % LimbBase>> \o AddFrom(a, b, i + 1, t \div LimbBase)

AddLimbs(a, b) == AddFrom(a, b, 1, 0)

\* a - b for a >= b, with the borrow out of limb i
RECURSIVE SubFrom(_, _, _, _)
SubFrom(a, b, i, borrow) ==
    IF i > Len(a) THEN <<>>
    ELSE LET t == Limb(a, i) - Limb(b, i) - borrow
         IN <<t % LimbBase>> \o SubFrom(a, b, i + 1, IF t < 0 THEN 1 ELSE 0)

SubLimbs(a, b) == Normal(SubFrom(a, b, 1, 0))

\* a * c for 0 <= c < 2^15
RECURSIVE MulSmallFrom(_, _, _, _)
MulSmallFrom(a, c, i, carry) ==
    IF i > Len(a) THEN (IF carry = 0 THEN <<>> ELSE <<carry>>)
    ELSE LET t == a[i] * c + carry
         IN <<t % LimbBase>> \o MulSmallFrom(a, c, i + 1, t \div LimbBase)

MulSmall(a, c) == Normal(MulSmallFrom(a, c, 1, 0))

Zeros(k) == [i \in 1..k |-> 0]

RECURSIVE MulFrom(_, _, _)
MulFrom(a, b, i) ==
    IF i > Len(b) THEN <<>>
    ELSE AddLimbs(Normal(Zeros(i - 1) \o MulSmall(a, b[i])), MulFrom(a, b, i + 1))

MulLimbs(a, b) == MulFrom(a, b, 1)

\* quotient and remainder of a by c, 0 < c < 2^15, from the top limb down
RECURSIVE DivSmallFrom(_, _, _, _)
DivSmallFrom(a, c, i, rem) ==
    IF i = 0 THEN [q |-> <<>>, r |-> rem]
    ELSE LET t == rem * LimbBase + a[i]
             rest == DivSmallFrom(a, c, i - 1, t % c)
         IN [q |-> rest.q \o <<t \div c>>, r |-> rest.r]

DivSmall(a, c) ==
    LET d == DivSmallFrom(a, c, Len(a), 0) IN [q |-> Normal(d.q), r |-> d.r]

ShiftLeft(a, k) ==
    IF a = <<>> THEN <<>> ELSE Zeros(k \div 15) \o MulSmall(a, Pow2(k % 15))

\* a = q * 2^k + r: the quotient, and the remainder as limbs
ShiftRight(a, k) ==
    LET whole == k \div 15
        top == DivSmall(SubSeq(a, whole + 1, Len(a)), Pow2(k % 15))
    IN [q |-> top.q, r |-> Normal(SubSeq(a, 1, whole) \o <<top.r>>)]

\* -1, 0, 1 as a < b, a = b, a > b
RECURSIVE CmpFrom(_, _, _)
CmpFrom(a, b, i) ==
    IF i = 0 THEN 0
    ELSE IF a[i] < b[i] THEN -1
    ELSE IF a[i] > b[i] THEN 1
    ELSE CmpFrom(a, b, i - 1)

CmpLimbs(a, b) ==
    IF Len(a) < Len(b) THEN -1 ELSE IF Len(a) > Len(b) THEN 1 ELSE CmpFrom(a, b, Len(a))

\* a double is m * 2^e with m below 2^53 (or 2^53 itself).  The double
\* nearest to (n + f) * 2^e, ties to even, where `inexact` says that the
\* fraction f, 0 <= f < 1, is not 0
RoundToDouble(n, e, inexact) ==
    LET k == BitLen(n) - 53
    IN IF k <= 0 THEN [m |-> n, e |-> e]
       ELSE LET cut == ShiftRight(n, k)
                half == ShiftLeft(<<1>>, k - 1)
                c == CmpLimbs(cut.r, half)
                odd == Limb(cut.q, 1) % 2 = 1
                up == c > 0 \/ (c = 0 /\ (inexact \/ odd))
            IN [m |-> IF up THEN AddLimbs(cut.q, <<1>>) ELSE cut.q, e |-> e + k]

\* float("digits" with `decimals` of them after the point), and a float
\* literal: the double nearest to digits / 10^decimals
FloatOfDecimal(digits, decimals) ==
    LET d == DivSmall(ShiftLeft(ToLimbs(digits), 70), Pow10(decimals))
    IN RoundToDouble(d.q, -70, d.r # 0)

FloatOfInt(n) == [m |-> ToLimbs(n), e |-> 0]

\* 1 - y for a double 0 <= y <= 1
OneMinus(y) ==
    IF y.e >= 0 THEN FloatOfInt(1 - ToInt(ShiftLeft(y.m, y.e)))
    ELSE RoundToDouble(SubLimbs(ShiftLeft(<<1>>, -y.e), y.m), y.e, FALSE)

FloatMul(x, y) == RoundToDouble(MulLimbs(x.m, y.m), x.e + y.e, FALSE)

\* int(x) for a double x >= 0
IntOfFloat(x) ==
    IF x.e >= 0 THEN ToInt(ShiftLeft(x.m, x.e)) ELSE ToInt(ShiftRight(x.m, -x.e).q)

\* the values BASE_PRICE_PER_CREDIT may have in the environment: unset, or a text
BasePrices == {"none", "100", "1.40"}

PriceChars(s) ==
    CASE s = "100" -> <<"1", "0", "0">>
      [] s = "1.40" -> <<"1", ".", "4", "0">>
      [] OTHER -> <<>>

DigitChars == {"0", "1", "2", "3", "4", "5", "6", "7", "8", "9"}

DigitValue(c) ==
    CASE c = "0" -> 0 [] c = "1" -> 1 [] c = "2" -> 2 [] c = "3" -> 3 [] c = "4" -> 4
      [] c = "5" -> 5 [] c = "6" -> 6 [] c = "7" -> 7 [] c = "8" -> 8 [] c = "9" -> 9

\* where the first "." stands, 0 if there is none
FirstDot(cs) ==
    IF \E i \in 1..Len(cs) : cs[i] = "."
    THEN CHOOSE i \in 1..Len(cs) : cs[i] = "." /\ \A j \in 1..(i - 1) : cs[j] # "."
    ELSE 0

\* str.replace(".", "", 1)
WithoutFirstDot(cs) ==
    IF FirstDot(cs) = 0 THEN cs
    ELSE SubSeq(cs, 1, FirstDot(cs) - 1) \o SubSeq(cs, FirstDot(cs) + 1, Len(cs))

\* str.isdigit
isdigit(cs) == cs # <<>> /\ \A i \in 1..Len(cs) : cs[i] \in DigitChars

\* routes/credit.py line 49: the test that lets a base price through
is_valid_price(s) == isdigit(WithoutFirstDot(PriceChars(s)))

RECURSIVE DigitsValue(_)
DigitsValue(cs) ==
    IF cs = <<>> THEN 0 ELSE 10 * DigitsValue(SubSeq(cs, 1, Len(cs) - 1)) + DigitValue(cs[Len(cs)])

\* the decimal a valid price text denotes: its digits, and how many of them
\* follow the point
PriceDigits(s) == DigitsValue(WithoutFirstDot(PriceChars(s)))
PriceDecimals(s) ==
    IF FirstDot(PriceChars(s)) = 0 THEN 0 ELSE Len(PriceChars(s)) - FirstDot(PriceChars(s))

\* routes/credit.py lines 52 and 65: int(float(price) * (1 - discount) * 100),
\* the discount being the int 0 or the float of a rate given in hundredths
unit_amount(price, rate) ==
    LET price_per_credit == FloatOfDecimal(PriceDigits(price), PriceDecimals(price))
        discount == IF rate = 0 THEN FloatOfInt(0) ELSE FloatOfDecimal(rate, 2)
    IN IntOfFloat(FloatMul(FloatMul(price_per_credit, OneMinus(discount)),
                           FloatOfInt(100)))

\* ------------------------------------------------------- buy_credits_route
\* the token may carry no email claim
NoEmail == "none"

\* routes/credit.py lines 31-33: the manager's email must be present
buy_credits_route(p, m, n) ==
    /\ Arrive(p, m # NoEmail)
    /\ LET r == [NoReq EXCEPT !.kind = "buy", !.manager = m, !.amount = n]
       IN IF m = NoEmail
          THEN Reject(p, r, 400, "Manager email is required")
          ELSE Step(p, "buy_size", r, NoLoc, Fresh)
    /\ UNCHANGED <<credits, roster, faults, activations, granted>>

\* TeamMemberDB.count_active_team_members: the number of the manager's rows
\* whose status is not Pending
count_active_team_members(m) ==
    Cardinality({k \in 1..Len(roster[m]) : roster[m][k].status # "Pending"})

\* lines 35-39: get_manager_team_size
buy_team_size(p) ==
    /\ pc[p] = "buy_size"
    /\ \E f \in FaultChoices :
        /\ Fault(f)
        /\ IF f
           THEN Respond(p, Faulted(hist[p], f), 500, "Error retrieving team size")
           ELSE GotoWith(p, hist[p], "buy_discount",
                         [loc[p] EXCEPT !.team_size =
                              count_active_team_members(req[p].manager)])
    /\ UNCHANGED <<credits, roster, started, overlaps, activations, granted>>

\* lines 41-45: discount = apply_discount(team_size)
buy_apply_discount(p) ==
    /\ pc[p] = "buy_discount"
    /\ GotoWith(p, hist[p], "buy_session",
                [loc[p] EXCEPT !.discount = apply_discount(loc[p].team_size)])
    /\ UNCHANGED <<credits, roster, started, overlaps, faults, activations, granted>>

\* lines 47-52 and 65: the base price of the environment must be a number (a
\* ValueError otherwise, which nothing catches); the amount of one credit in
\* the session is computed from it
buy_price_per_credit(p) ==
    /\ pc[p] = "buy_session"
    /\ \E price \in BasePrices :
        /\ ~is_valid_price(price) => faults < MaxFaults
        /\ Fault(~is_valid_price(price))
        /\ IF ~is_valid_price(price)
           THEN Respond(p, hist[p], 500, "Invalid BASE_PRICE_PER_CREDIT")
           ELSE GotoWith(p, hist[p], "buy_create",
                         [loc[p] EXCEPT !.price_per_credit = price,
                                        !.unit_amount = unit_amount(price, loc[p].discount)])
    /\ UNCHANGED <<credits, roster, started, overlaps, activations, granted>>

\* lines 54-80: the provider creates the checkout session or fails
SessionOutcomes == {"created", "stripe_error"}

\* a session step that books the credits at once
buy_create_session_granting(p) ==
    /\ pc[p] = "buy_create"
    /\ Fault(FALSE)
    /\ Respond(p, hist[p], 200, "checkout_url")
    /\ credits' = [credits EXCEPT ![req[p].manager] =
                      NewestFirst([id |-> Len(@) + 1,
                                   credits |-> get_credits(req[p].manager)
                                                   + req[p].amount], @)]
    /\ UNCHANGED <<roster, started, overlaps, activations, granted>>

buy_create_session(p) ==
    /\ pc[p] = "buy_create"
    /\ \E o \in SessionOutcomes :
        /\ o # "created" => faults < MaxFaults
        /\ Fault(o # "created")
        /\ IF o = "created" THEN Respond(p, hist[p], 200, "checkout_url")
           ELSE Respond(p, hist[p], 500, "Stripe error")
    /\ UNCHANGED <<credits, roster, started, overlaps, activations, granted>>

\* the purchase workflow on its own, initiation and confirmation, started
\* from an empty ledger and any team: `active` rows that are not Pending, then
\* `pending` Pending rows
Team(active, pending) ==
    [k \in 1..(active + pending) |->
        [id |-> k, email |-> "a@x.co",
         status |-> IF k <= active THEN "Active" ELSE "Pending", credits |-> 1]]

PurchaseRosters == [Managers -> {Team(a, q) : a \in 0..MaxTeam, q \in 0..1}]

PurchaseInit ==
    /\ credits = NoTable
    /\ roster \in PurchaseRosters
    /\ pc = [p \in Procs |-> "idle"]
    /\ req = [p \in Procs |-> NoReq]
    /\ loc = [p \in Procs |-> NoLoc]
    /\ hist = [p \in Procs |-> NoHist]
    /\ started = 0
    /\ overlaps = 0
    /\ faults = 0
    /\ activations = 0
    /\ granted = [m \in Managers |-> Len(roster[m])]

PurchaseNext ==
    \/ \E p \in Procs, m \in Managers \cup {NoEmail}, n \in 1..MaxCredits :
          buy_credits_route(p, m, n)
    \/ \E p \in Procs : buy_team_size(p)
    \/ \E p \in Procs : buy_apply_discount(p)
    \/ \E p \in Procs : buy_price_per_credit(p)
    \/ \E p \in Procs : buy_create_session(p)
    \/ \E p \in Procs, h \in SignatureHeaders, t \in EventTypes, m \in Managers,
          n \in 1..MaxCredits : stripe_webhook(p, h, t, m, n)
    \/ \E p \in Procs : update_credit_data(p)
    \/ \E p \in Procs : create_credits(p)
    \/ \E p \in Procs : update_credits_query(p)
    \/ \E p \in Procs : update_credits_update_item(p)

PurchaseSpec == PurchaseInit /\ [][PurchaseNext]_vars

\* the discount step on its own, for every team size
DiscountInit ==
    /\ credits = NoTable
    /\ roster = NoTable
    /\ pc = [p \in Procs |-> IF p = "p1" THEN "buy_discount" ELSE "idle"]
    /\ req = [p \in Procs |->
                IF p = "p1"
                THEN [NoReq EXCEPT !.kind = "buy", !.manager = "m1@x.co", !.amount = 1]
                ELSE NoReq]
    /\ \E n \in 0..MaxTeamSize :
          loc = [p \in Procs |->
                   IF p = "p1" THEN [NoLoc EXCEPT !.team_size = n] ELSE NoLoc]
    /\ hist = [p \in Procs |-> NoHist]
    /\ started = 1
    /\ overlaps = 0
    /\ faults = 0
    /\ activations = 0
    /\ granted = [m \in Managers |-> 0]

DiscountNext == \E p \in Procs : buy_apply_discount(p)

DiscountSpec == DiscountInit /\ [][DiscountNext]_vars

\* ------------------------------------------------------- pricing a session
\* the purchase initiation on its own, for teams around every discount
\* threshold, with and without a Pending member
PricedTeamSizes == {0, 4, 5, 15, 50, 60, 100}

PriceInit ==
    /\ credits = NoTable
    /\ \E a \in PricedTeamSizes, q \in 0..1 :
          roster = [m \in Managers |-> IF m = "m1@x.co" THEN Team(a, q) ELSE <<>>]
    /\ pc = [p \in Procs |-> "idle"]
    /\ req = [p \in Procs |-> NoReq]
    /\ loc = [p \in Procs |-> NoLoc]
    /\ hist = [p \in Procs |-> NoHist]
    /\ started = 0
    /\ overlaps = 0
    /\ faults = 0
    /\ activations = 0
    /\ granted = [m \in Managers |-> Len(roster[m])]

PriceNext ==
    \/ \E p \in Procs, m \in Managers \cup {NoEmail}, n \in 1..MaxCredits :
          buy_credits_route(p, m, n)
    \/ \E p \in Procs : buy_team_size(p)
    \/ \E p \in Procs : buy_apply_discount(p)
    \/ \E p \in Procs : buy_price_per_credit(p)
    \/ \E p \in Procs : buy_create_session(p)

PriceSpec == PriceInit /\ [][PriceNext]_vars

\* ------------------------------------------------- restoring on any ledger
\* the set-balance operation, called on its own and by invalidations: one
\* manager with or without a row and with any team, and one that has neither
RestoreInit ==
    /\ credits \in {t \in LedgerTables : t["m2@x.co"] = <<>>}
    /\ roster \in {r \in PurchaseRosters : r["m2@x.co"] = <<>>}
    /\ pc = [p \in Procs |-> "idle"]
    /\ req = [p \in Procs |-> NoReq]
    /\ loc = [p \in Procs |-> NoLoc]
    /\ hist = [p \in Procs |-> NoHist]
    /\ started = 0
    /\ overlaps = 0
    /\ faults = 0
    /\ activations = 0
    /\ granted = [m \in Managers |-> get_credits(m) + Len(roster[m])]

RestoreNext ==
    \/ \E p \in Procs, m \in Managers, v \in 1..MaxCredits : update_credits(p, m, v)
    \/ \E p \in Procs : update_credits_query(p)
    \/ \E p \in Procs : update_credits_update_item(p)
    \/ \E p \in Procs, m \in Managers, e \in Emails : invalidate_credit_route(p, m, e)
    \/ \E p \in Procs : invalidate_credit(p)
    \/ \E p \in Procs : invalidate_read_credits(p)
    \/ \E p \in Procs : update_credits_in_members_query(p)
    \/ \E p \in Procs : update_credits_in_members_update_item(p)

RestoreSpec == RestoreInit /\ [][RestoreNext]_vars

\* ------------------------------------------------------------ read routes
\* get_credits_route, routes/credit.py lines 136-143: manager['email'] of a
\* token without the claim raises KeyError, answered with 500
get_credits_route(p, m) ==
    /\ Arrive(p, m # NoEmail)
    /\ LET r == [NoReq EXCEPT !.kind = "get_credits", !.manager = m]
       IN IF m = NoEmail
          THEN Reject(p, r, 500, "'email'")
          ELSE Step(p, "gc_query", r, NoLoc, Fresh)
    /\ UNCHANGED <<credits, roster, faults, activations, granted>>

\* a read that raises what the store raises
get_credits_query_raising(p) ==
    /\ pc[p] = "gc_query"
    /\ \E f \in FaultChoices :
        /\ Fault(f)
        /\ IF f
           THEN Respond(p, Faulted(hist[p], f), 500, "Error getting credits")
           ELSE GotoWith(p, hist[p], "gc_return",
                         [loc[p] EXCEPT !.new = get_credits(req[p].manager)])
    /\ UNCHANGED <<credits, roster, started, overlaps, activations, granted>>

\* services get_credits, lines 87-94, on CreditsDB.get_credits, models.py
\* lines 153-170: the query; a failure is logged and answered with 0
get_credits_query(p) ==
    /\ pc[p] = "gc_query"
    /\ \E f \in FaultChoices :
        /\ Fault(f)
        /\ GotoWith(p, Faulted(hist[p], f), "gc_return",
                    [loc[p] EXCEPT !.new = IF f THEN 0 ELSE get_credits(req[p].manager)])
    /\ UNCHANGED <<credits, roster, started, overlaps, activations, granted>>

\* routes/credit.py line 138: the response carries the credits read
get_credits_route_return(p) ==
    /\ pc[p] = "gc_return"
    /\ Step(p, "idle", req[p], loc[p], [hist[p] EXCEPT !.code = 200, !.detail = "credits"])
    /\ UNCHANGED <<credits, roster, started, overlaps, faults, activations, granted>>

\* get_team_members_route, routes/team.py lines 50-62
get_team_members_route(p, m) ==
    /\ Arrive(p, m # NoEmail)
    /\ LET r == [NoReq EXCEPT !.kind = "get_team_members", !.manager = m]
       IN IF m = NoEmail
          THEN Reject(p, r, 500, "Internal server error")
          ELSE Step(p, "gtm_query", r, NoLoc, Fresh)
    /\ UNCHANGED <<credits, roster, faults, activations, granted>>

\* services get_team_members, team.py lines 62-79, and the route's answer: an
\* empty list is answered with 404
get_team_members(p) ==
    /\ pc[p] = "gtm_query"
    /\ \E f \in FaultChoices :
        /\ Fault(f)
        /\ IF f
           THEN Respond(p, Faulted(hist[p], f), 500, "Internal server error")
           ELSE IF roster[req[p].manager] = <<>>
           THEN Respond(p, hist[p], 404, "No team members found")
           ELSE Respond(p, hist[p], 200, "team_members")
    /\ UNCHANGED <<credits, roster, started, overlaps, activations, granted>>

ReadInit ==
    /\ credits \in LedgerTables
    /\ roster \in PurchaseRosters
    /\ pc = [p \in Procs |-> "idle"]
    /\ req = [p \in Procs |-> NoReq]
    /\ loc = [p \in Procs |-> NoLoc]
    /\ hist = [p \in Procs |-> NoHist]
    /\ started = 0
    /\ overlaps = 0
    /\ faults = 0
    /\ activations = 0
    /\ granted = [m \in Managers |-> get_credits(m)]

\* the three reads: the balance, the member list, and the count of active
\* members taken by a purchase initiation
ReadNext ==
    \/ \E p \in Procs, m \in Managers \cup {NoEmail} : get_credits_route(p, m)
    \/ \E p \in Procs : get_credits_query(p)
    \/ \E p \in Procs : get_credits_route_return(p)
    \/ \E p \in Procs, m \in Managers \cup {NoEmail} : get_team_members_route(p, m)
    \/ \E p \in Procs : get_team_members(p)
    \/ \E p \in Procs, m \in Managers \cup {NoEmail}, n \in 1..MaxCredits :
          buy_credits_route(p, m, n)
    \/ \E p \in Procs : buy_team_size(p)
    \/ \E p \in Procs : buy_apply_discount(p)
    \/ \E p \in Procs : buy_price_per_credit(p)
    \/ \E p \in Procs : buy_create_session(p)

ReadSpec == ReadInit /\ [][ReadNext]_vars

\* ------------------------------------------------------------- redelivery
\* the session of one checkout, as every delivery of its completed event
\* carries it (routes/credit.py lines 105-110)
redelivered_session == [manager_email |-> "m1@x.co", credits_purchased |-> MaxCredits]

RedeliveryInit ==
    /\ credits = NoTable
    /\ roster = NoTable
    /\ pc = [p \in Procs |-> "idle"]
    /\ req = [p \in Procs |-> NoReq]
    /\ loc = [p \in Procs |-> NoLoc]
    /\ hist = [p \in Procs |-> NoHist]
    /\ started = 0
    /\ overlaps = 0
    /\ faults = 0
    /\ activations = 0
    /\ granted = [m \in Managers |-> 0]

\* the provider delivers that event again and again, signed
RedeliveryNext ==
    \/ \E p \in Procs :
          stripe_webhook(p, STRIPE_WEBHOOK_KEY, "checkout.session.completed",
                         redelivered_session.manager_email,
                         redelivered_session.credits_purchased)
    \/ \E p \in Procs : update_credit_data(p)
    \/ \E p \in Procs : create_credits(p)
    \/ \E p \in Procs : update_credits_query(p)
    \/ \E p \in Procs : update_credits_update_item(p)

RedeliverySpec == RedeliveryInit /\ [][RedeliveryNext]_vars

\* ------------------------------------------------------------ specification
Next ==
    \/ \E p \in Procs, m \in Managers, e \in Emails : invite_team_member(p, m, e)
    \/ \E p \in Procs : invite_get_team_members(p)
    \/ \E p \in Procs : invite_send_mail(p)
    \/ \E p \in Procs : invite_check_credits(p)
    \/ \E p \in Procs : invite_save_team_member(p)
    \/ \E p \in Procs : update_credit_data(p)
    \/ \E p \in Procs : create_credits(p)
    \/ \E p \in Procs : update_credits_query(p)
    \/ \E p \in Procs : update_credits_update_item(p)
    \/ \E p \in Procs, h \in SignatureHeaders, t \in EventTypes, m \in Managers,
          n \in 1..MaxCredits : stripe_webhook(p, h, t, m, n)
    \/ \E p \in Procs, m \in Managers, e \in Emails : invalidate_credit_route(p, m, e)
    \/ \E p \in Procs : invalidate_credit(p)
    \/ \E p \in Procs : invalidate_read_credits(p)
    \/ \E p \in Procs : update_credits_in_members_query(p)
    \/ \E p \in Procs : update_credits_in_members_update_item(p)
    \/ \E m \in Managers, k \in 1..MaxRequests : member_activates(m, k)

Spec == Init /\ [][Next]_vars

\* the five workflows of the handlers alone, from the empty tables: invite,
\* invalidation, notification, purchase initiation and purchase confirmation
WorkflowNext ==
    \/ \E p \in Procs, m \in Managers, e \in Emails : invite_team_member(p, m, e)
    \/ \E p \in Procs : invite_get_team_members(p)
    \/ \E p \in Procs : invite_send_mail(p)
    \/ \E p \in Procs : invite_check_credits(p)
    \/ \E p \in Procs : invite_save_team_member(p)
    \/ \E p \in Procs : update_credit_data(p)
    \/ \E p \in Procs : create_credits(p)
    \/ \E p \in Procs : update_credits_query(p)
    \/ \E p \in Procs : update_credits_update_item(p)
    \/ \E p \in Procs, h \in SignatureHeaders, t \in EventTypes, m \in Managers,
          n \in 1..MaxCredits : stripe_webhook(p, h, t, m, n)
    \/ \E p \in Procs, m \in Managers, e \in Emails : invalidate_credit_route(p, m, e)
    \/ \E p \in Procs : invalidate_credit(p)
    \/ \E p \in Procs : invalidate_read_credits(p)
    \/ \E p \in Procs : update_credits_in_members_query(p)
    \/ \E p \in Procs : update_credits_in_members_update_item(p)
    \/ \E p \in Procs, m \in Managers, e \in NotifyEmails, a \in NotifyActions :
          send_notification(p, m, e, a)
    \/ \E p \in Procs : notify_manager(p)
    \/ \E p \in Procs : notify_send_mail(p)
    \/ \E p \in Procs, m \in Managers \cup {NoEmail}, n \in 1..MaxCredits :
          buy_credits_route(p, m, n)
    \/ \E p \in Procs : buy_team_size(p)
    \/ \E p \in Procs : buy_apply_discount(p)
    \/ \E p \in Procs : buy_price_per_credit(p)
    \/ \E p \in Procs : buy_create_session(p)

WorkflowSpec == Init /\ [][WorkflowNext]_vars

TypeOK ==
    /\ started \in 0..MaxRequests
    /\ overlaps \in 0..MaxOverlaps
    /\ faults \in 0..MaxFaults
    /\ \A p \in Procs : hist[p].code \in {0, 200, 400, 404, 409, 500}

\* ----------------------------------------------------- vocabulary of claims
\* slot p holds the response of a request that has just been answered
Done(p) == pc[p] = "idle" /\ hist[p].code # 0

\* ... and that request ran without interference, every store call answering
Clean(p) == Done(p) /\ hist[p].alone /\ ~hist[p].faulted

\* getBalance before the request of slot p arrived
PreBalance(p, m) ==
    IF hist[p].pre_credits[m] = <<>> THEN 0 ELSE hist[p].pre_credits[m][1].credits

OthersUntouched(p) ==
    \A m \in Managers \ {req[p].manager} :
        /\ credits[m] = hist[p].pre_credits[m]
        /\ roster[m] = hist[p].pre_roster[m]

NothingWritten(p) ==
    /\ credits = hist[p].pre_credits
    /\ roster = hist[p].pre_roster

\* the four invite preconditions, on the state the request arrived in
ValidEmail(p) == is_valid_email(req[p].email)
NotSelf(p) == req[p].email # req[p].manager
NotPending(p) ==
    ~is_team_member_already_invited(req[p].email, hist[p].pre_roster[req[p].manager])
HasCredit(p) == PreBalance(p, req[p].manager) >= 1

\* ------------------------------------------------------------------ claims
\* C1: in every reachable state every stored credit balance is >= 0, also
\* when no store or provider call ever fails (two invites racing on a
\* balance of 1 included).
C1_StoredBalancesNonNegative ==
    faults = 0 =>
        \A m \in Managers : \A k \in 1..Len(credits[m]) : credits[m][k].credits >= 0

\* C2: a successful invite that ran without interference and without a failed
\* store call has lowered the manager's balance by exactly 1 and added exactly
\* one roster row, (manager, email, Pending, credits 1); the manager's other
\* rows and every other manager's ledger and roster are as before.
C2_SuccessfulInvite ==
    \A p \in Procs :
        (Clean(p) /\ req[p].kind = "invite" /\ hist[p].code = 200) =>
            LET m == req[p].manager
                before == hist[p].pre_roster[m]
            IN /\ get_credits(m) = PreBalance(p, m) - 1
               /\ Len(roster[m]) = Len(before) + 1
               /\ \E i \in 1..Len(roster[m]) :
                    /\ roster[m][i].email = req[p].email
                    /\ roster[m][i].status = "Pending"
                    /\ roster[m][i].credits = 1
                    /\ roster[m] = InsertAt(before, i, roster[m][i])
               /\ OthersUntouched(p)

C2_Witness ==
    \E p \in Procs :
        /\ Clean(p) /\ req[p].kind = "invite" /\ hist[p].code = 200
        /\ hist[p].pre_roster[req[p].manager] # <<>>

\* C3: an invite that passes the first three preconditions while the balance
\* is below 1 is answered with status 400, and ledger and roster are as before.
C3_InsufficientCreditsIs400 ==
    \A p \in Procs :
        (Clean(p) /\ req[p].kind = "invite" /\ ValidEmail(p) /\ NotSelf(p)
            /\ NotPending(p) /\ ~HasCredit(p)) =>
            /\ hist[p].code = 400
            /\ NothingWritten(p)

\* C4: an invite that fails any of the four preconditions has sent no
\* invitation email (the four are checked before any success-path step).
C4_NoMailBeforePreconditions ==
    \A p \in Procs :
        (Clean(p) /\ req[p].kind = "invite"
            /\ ~(ValidEmail(p) /\ NotSelf(p) /\ NotPending(p) /\ HasCredit(p))) =>
            hist[p].mailed # "sent"

\* C5: when the provider's send call fails, the invite (run without
\* interference) is answered with 500 and debits no credit and creates no
\* member.
C5_MailFailureAborts ==
    \A p \in Procs :
        (Done(p) /\ hist[p].alone /\ req[p].kind = "invite"
            /\ hist[p].mailed = "failed") =>
            /\ hist[p].code = 500
            /\ NothingWritten(p)

\* the slot whose handler takes this step
Acts(p) == pc'[p] # pc[p]

\* C6: a confirmation whose signature header is missing or does not verify is
\* answered with 400 and leaves the ledger as it was; and a step of the
\* confirmation handler writes the ledger only once the signature has verified.
C6_Rejected ==
    \A p \in Procs :
        (Done(p) /\ req[p].kind = "webhook" /\ req[p].sig # STRIPE_WEBHOOK_KEY) =>
            /\ hist[p].code = 400
            /\ ~hist[p].verified
            /\ hist[p].alone => NothingWritten(p)

C6_WriteStep ==
    \A p \in Procs :
        (Acts(p) /\ req[p].kind = "webhook" /\ credits' # credits) =>
            /\ hist[p].verified
            /\ req[p].sig = STRIPE_WEBHOOK_KEY

C6_VerifyBeforeLedger == []C6_Rejected /\ [][C6_WriteStep]_vars

C6_Witness ==
    \E p \in Procs :
        /\ Done(p) /\ req[p].kind = "webhook" /\ req[p].sig = "forged"
        /\ hist[p].alone
        /\ \E m \in Managers : credits[m] # <<>>

\* C7: a verified payment-completed event for manager X and N credits,
\* processed without interference and without a failed store call, is answered
\* with 200 and leaves getBalance(X) at its previous value + N, whether X had
\* no row, a row with balance 0 or a positive balance; every other manager's
\* ledger is as before.
C7_ConfirmationAddsN ==
    \A p \in Procs :
        (Clean(p) /\ req[p].kind = "webhook" /\ req[p].sig = STRIPE_WEBHOOK_KEY
            /\ req[p].type = "checkout.session.completed") =>
            /\ hist[p].code = 200
            /\ req[p].amount > 0
            /\ get_credits(req[p].manager) = PreBalance(p, req[p].manager) + req[p].amount
            /\ OthersUntouched(p)

\* the prior state is a row left at balance 0 by earlier invites
C7_Witness ==
    \E p \in Procs :
        /\ Clean(p) /\ req[p].kind = "webhook" /\ hist[p].code = 200
        /\ req[p].type = "checkout.session.completed"
        /\ hist[p].pre_credits[req[p].manager] # <<>>
        /\ PreBalance(p, req[p].manager) = 0

\* C8: in every reachable state the Credits table holds at most one row per
\* manager, also when no store or provider call ever fails and no two requests
\* ever overlap.
C8_OneRowPerManager ==
    (faults = 0 /\ overlaps = 0) => \A m \in Managers : Len(credits[m]) <= 1

\* the row the lookup by address finds in the roster the request arrived at
Found(p) == FirstMatch(hist[p].pre_roster[req[p].manager], req[p].email)
FoundRow(p) == hist[p].pre_roster[req[p].manager][Found(p)]

\* C9: invalidating the credit of an address whose member row (the row the
\* lookup finds) is Pending with credits 1, without interference and without a
\* failed store call, is answered with the confirmation (creditsRestored 1),
\* raises the manager's balance by exactly 1 and sets that row's credits to 0,
\* nothing else changing.
C9_InvalidateRestoresOne ==
    \A p \in Procs :
        (Clean(p) /\ req[p].kind = "invalidate" /\ Found(p) # 0
            /\ FoundRow(p).status = "Pending" /\ FoundRow(p).credits = 1) =>
            LET m == req[p].manager
            IN /\ hist[p].code = 200
               /\ hist[p].detail = "credit_invalidated"
               /\ get_credits(m) = PreBalance(p, m) + 1
               /\ roster[m] = [hist[p].pre_roster[m] EXCEPT ![Found(p)].credits = 0]
               /\ OthersUntouched(p)

C9_Witness ==
    \E p \in Procs :
        /\ Clean(p) /\ req[p].kind = "invalidate" /\ hist[p].code = 200
        /\ Found(p) # 0
        /\ FoundRow(p).credits = 1
        /\ roster[req[p].manager][Found(p)].credits = 0

\* C10: invalidating the credit of an address whose member row (the row the
\* lookup finds) is not Pending is answered with 400, whatever credits the row
\* holds, and neither the ledger nor the roster changes.
C10_NotPendingIs400 ==
    \A p \in Procs :
        (Clean(p) /\ req[p].kind = "invalidate" /\ Found(p) # 0
            /\ FoundRow(p).status # "Pending") =>
            /\ hist[p].code = 400
            /\ NothingWritten(p)

C10_Witness ==
    \E p \in Procs :
        /\ Clean(p) /\ req[p].kind = "invalidate" /\ Found(p) # 0
        /\ FoundRow(p).status = "Active"
        /\ FoundRow(p).credits = 1
        /\ hist[p].code = 400

\* the rows of an address in a manager's roster as the request of slot p found it
RowsOf(p, m, e) ==
    {k \in 1..Len(hist[p].pre_roster[m]) : hist[p].pre_roster[m][k].email = e}

\* C11 as stated: invalidating the credit of any address that has no member
\* row under the calling manager is answered with 404 and writes nothing.
C11_NoRecordIs404 ==
    \A p \in Procs :
        (Clean(p) /\ req[p].kind = "invalidate"
            /\ RowsOf(p, req[p].manager, req[p].email) = {}) =>
            /\ hist[p].code = 404
            /\ NothingWritten(p)

\* C11 amended: invalidating the credit of a syntactically valid address that
\* has no member row under the calling manager (rows of that address under
\* another manager or not) is answered with 404 and writes nothing; an
\* address that is not syntactically valid is answered with 400 and writes
\* nothing.
C11_NoRecordIs404_Amended ==
    \A p \in Procs :
        (Clean(p) /\ req[p].kind = "invalidate"
            /\ RowsOf(p, req[p].manager, req[p].email) = {}) =>
            /\ hist[p].code = (IF is_valid_email(req[p].email) THEN 404 ELSE 400)
            /\ NothingWritten(p)

\* the address is a member under a different manager only
C11_Witness ==
    \E p \in Procs :
        /\ Clean(p) /\ req[p].kind = "invalidate" /\ hist[p].code = 404
        /\ RowsOf(p, req[p].manager, req[p].email) = {}
        /\ \E m \in Managers : RowsOf(p, m, req[p].email) # {}

\* C12: an invite, run without interference, to an address that has a Pending
\* row under the same manager is answered with 409; no email is sent, no
\* credit is debited and no member row is added.
C12_PendingDuplicateIs409 ==
    \A p \in Procs :
        (Clean(p) /\ req[p].kind = "invite"
            /\ \E k \in RowsOf(p, req[p].manager, req[p].email) :
                  hist[p].pre_roster[req[p].manager][k].status = "Pending") =>
            /\ hist[p].code = 409
            /\ hist[p].mailed = "no"
            /\ NothingWritten(p)

C12_Witness ==
    \E p \in Procs :
        /\ Clean(p) /\ req[p].kind = "invite" /\ hist[p].code = 409
        /\ get_credits(req[p].manager) >= 1

\* C13: in every reachable state, also when no store or provider call ever
\* fails, no manager's roster holds two Pending rows of one address.
C13_NoTwoPending ==
    faults = 0 =>
        \A m \in Managers : \A i, j \in 1..Len(roster[m]) :
            (i # j /\ roster[m][i].email = roster[m][j].email) =>
                ~(roster[m][i].status = "Pending" /\ roster[m][j].status = "Pending")

\* C14: an invite whose address is not syntactically valid is answered with
\* 400 by the step that receives it: its handler never stands at a store or
\* provider call, no email is sent, and ledger and roster are as they were.
C14_InvalidEmailNoStoreAccess ==
    \A p \in Procs :
        (req[p].kind = "invite" /\ ~is_valid_email(req[p].email)) =>
            /\ pc[p] = "idle"
            /\ hist[p].code = 400
            /\ hist[p].detail = "Invalid email format"
            /\ ~hist[p].faulted
            /\ hist[p].mailed = "no"
            /\ hist[p].alone => NothingWritten(p)

C14_Witness ==
    \E p \in Procs :
        /\ req[p].kind = "invite" /\ req[p].email = "a@x"
        /\ hist[p].code = 400 /\ hist[p].alone
        /\ get_credits(req[p].manager) >= 1
        /\ roster[req[p].manager] # <<>>

\* C15: an invite whose address is the manager's own is answered with 400 by
\* the step that receives it; no email is sent, and ledger and roster are as
\* they were.
C15_SelfInviteIs400 ==
    \A p \in Procs :
        (req[p].kind = "invite" /\ req[p].email = req[p].manager) =>
            /\ pc[p] = "idle"
            /\ hist[p].code = 400
            /\ hist[p].detail = "Manager cannot invite themselves"
            /\ hist[p].mailed = "no"
            /\ hist[p].alone => NothingWritten(p)

C15_Witness ==
    \E p \in Procs :
        /\ req[p].kind = "invite" /\ req[p].email = req[p].manager
        /\ hist[p].code = 400 /\ hist[p].alone
        /\ get_credits(req[p].manager) >= 1

\* C16: CreditsDB.update_credits called with a negative balance, run without
\* interference and without a failed store call, raises and leaves the
\* Credits table as it was, whether the manager has a row or not.
C16_NegativeSetBalanceFails ==
    \A p \in Procs :
        (Clean(p) /\ req[p].kind = "update_credits" /\ req[p].amount < 0) =>
            /\ hist[p].code # 200
            /\ NothingWritten(p)

\* the rate of section 4.1 for a team size, in hundredths
TierRate(n) ==
    IF n >= 100 THEN 35 ELSE IF n >= 50 THEN 30 ELSE IF n >= 15 THEN 25
    ELSE IF n >= 5 THEN 20 ELSE 0

\* C19: for every team size the discount step yields the rate of the highest
\* threshold not above the size (0 below 5), and never less than it yields
\* for the size one smaller.
C19_DiscountTiers ==
    \A p \in Procs :
        pc[p] = "buy_session" =>
            /\ loc[p].discount = TierRate(loc[p].team_size)
            /\ loc[p].team_size > 0 =>
                  apply_discount(loc[p].team_size - 1) <= loc[p].discount

C19_Witness ==
    \E p \in Procs :
        /\ pc[p] = "buy_session"
        /\ loc[p].team_size = 99
        /\ loc[p].discount = 30

\* C17: a purchase initiation, whether the session is created or the
\* provider fails, is answered without anything written; no step of it
\* changes ledger or roster, and in the purchase workflow a step raises a
\* manager's balance only when taken by a confirmation whose signature
\* verified and whose event is the completed one.
C17_BuyDone ==
    \A p \in Procs :
        (Done(p) /\ req[p].kind = "buy") =>
            /\ hist[p].code \in {200, 400, 500}
            /\ hist[p].alone => NothingWritten(p)

C17_BuyStep ==
    \A p \in Procs :
        (Acts(p) /\ req[p].kind = "buy") => (credits' = credits /\ roster' = roster)

C17_GrantStep ==
    (\E m \in Managers : get_credits(m)' > get_credits(m)) =>
        \E p \in Procs :
            /\ Acts(p) /\ req[p].kind = "webhook"
            /\ hist[p].verified
            /\ req[p].sig = STRIPE_WEBHOOK_KEY
            /\ req[p].type = "checkout.session.completed"

C18_OtherEventIgnored ==
    \A p \in Procs :
        (req[p].kind = "webhook" /\ req[p].sig = STRIPE_WEBHOOK_KEY
            /\ req[p].type = "payment_intent.created") =>
            /\ pc[p] = "idle"
            /\ hist[p].code = 200
            /\ hist[p].detail = "Event not handled"
            /\ hist[p].alone => NothingWritten(p)

C18_Witness ==
    \E p \in Procs :
        /\ req[p].kind = "webhook" /\ req[p].type = "payment_intent.created"
        /\ hist[p].code = 200 /\ hist[p].alone
        /\ \E m \in Managers : get_credits(m) >= 1

\* the credits held by the member rows of a manager
RECURSIVE SumCredits(_)
SumCredits(rows) ==
    IF rows = <<>> THEN 0 ELSE rows[1].credits + SumCredits(Tail(rows))

\* C20: in every state between requests of a run in which no two requests
\* overlapped and no store or provider call failed, each manager's balance
\* plus the credits held by its member rows equals the credits granted to it
\* by verified completed confirmations.
C20_CreditsConserved ==
    (faults = 0 /\ overlaps = 0 /\ \A p \in Procs : pc[p] = "idle") =>
        \A m \in Managers : get_credits(m) + SumCredits(roster[m]) = granted[m]

\* after two purchases, an invite between them, and an invalidation
C20_Witness ==
    /\ faults = 0 /\ overlaps = 0 /\ \A p \in Procs : pc[p] = "idle"
    /\ \E m \in Managers :
          /\ granted[m] = 2
          /\ Len(credits[m]) = 2
          /\ get_credits(m) = 2

\* C21: requests that read and then write one manager's balance can lose an
\* update.  A confirmation's ledger write leaves the balance at anything but
\* its previous value + N only when another request took a step while it ran
\* or a store call failed; and (witness) two overlapping confirmations for one
\* manager, no call failing, do end with a balance below what both granted.
C21_WriteStep ==
    \A p \in Procs :
        (Acts(p) /\ req[p].kind = "webhook" /\ credits' # credits
            /\ get_credits(req[p].manager)' # get_credits(req[p].manager) + req[p].amount) =>
            (~hist[p].alone \/ hist[p].faulted)

C21_LostUpdateNeedsOverlap == [][C21_WriteStep]_vars

\* two confirmations of 1 credit each were booked, the balance is 1
C21_Witness ==
    /\ faults = 0 /\ overlaps = 1 /\ \A p \in Procs : pc[p] = "idle"
    /\ \E m \in Managers :
          /\ granted[m] = 2
          /\ get_credits(m) = 1
          /\ roster[m] = <<>>

\* the steps of an invite that come after the call of send_mail
AfterMail == {"inv_check", "ucd_read", "ucd_create", "ucd_query", "ucd_update", "inv_save"}

\* C22: in every execution of the invite workflow the send_mail call has
\* returned before the credit is debited and before the member row is written:
\* an invite stands at a later step only with the send step behind it, and no
\* step of an invite changes ledger or roster before the send step.
C22_PastMail ==
    \A p \in Procs :
        (req[p].kind = "invite" /\ pc[p] \in AfterMail) => hist[p].mailed # "no"

C22_WriteStep ==
    \A p \in Procs :
        (Acts(p) /\ req[p].kind = "invite" /\ (credits' # credits \/ roster' # roster)) =>
            /\ hist[p].mailed # "no"
            /\ pc[p] \in AfterMail

C22_MailBeforeDebit == []C22_PastMail /\ [][C22_WriteStep]_vars

\* an invite has debited its credit and is about to write the member row
C22_Witness ==
    \E p \in Procs :
        /\ req[p].kind = "invite" /\ pc[p] = "inv_save" /\ hist[p].alone
        /\ hist[p].mailed = "sent"
        /\ get_credits(req[p].manager) = PreBalance(p, req[p].manager) - 1
        /\ roster = hist[p].pre_roster

\* C23: the confirmation handler does not deduplicate.  When the same verified
\* completed event for N credits has been delivered k times, one delivery
\* after the other and no store call failing, every delivery was booked: the
\* manager's balance is k * N (it was 0 before the first), in one row, and no
\* other manager has a row.
C23_RedeliveryAddsEachTime ==
    (faults = 0 /\ overlaps = 0 /\ \A p \in Procs : pc[p] = "idle") =>
        /\ get_credits(redelivered_session.manager_email)
              = started * redelivered_session.credits_purchased
        /\ \A m \in Managers \ {redelivered_session.manager_email} : credits[m] = <<>>
        /\ \A p \in Procs : hist[p].code \in {0, 200}

\* the third delivery has been answered
C23_Witness ==
    /\ faults = 0 /\ overlaps = 0 /\ \A p \in Procs : pc[p] = "idle"
    /\ started = 3
    /\ get_credits(redelivered_session.manager_email)
          = 3 * redelivered_session.credits_purchased
    /\ \E p \in Procs : hist[p].code = 200 /\ req[p].kind = "webhook"

\* C24: the invalidation writes the manager's balance first and the member's
\* credits second, and nothing compensates.  When the member write (its query
\* or its update_item) is the one store call that fails in an invalidation run
\* without interference, the request is answered with 500, the manager's
\* balance is its previous value + 1, and the roster is as before: the member
\* row found is still Pending with its credit, so the same invalidation passes
\* its checks again.  And the step that writes the member's credits comes
\* after the balance write and leaves the ledger alone.
C24_MemberWriteFailed ==
    \A p \in Procs :
        (Done(p) /\ hist[p].alone /\ req[p].kind = "invalidate" /\ faults = 1
            /\ hist[p].detail = "Failed to update credits") =>
            LET m == req[p].manager
            IN /\ hist[p].code = 500
               /\ hist[p].faulted
               /\ get_credits(m) = PreBalance(p, m) + 1
               /\ roster = hist[p].pre_roster
               /\ Found(p) # 0
               /\ roster[m][Found(p)].status = "Pending"
               /\ roster[m][Found(p)].credits >= 1
               /\ \A o \in Managers \ {m} : credits[o] = hist[p].pre_credits[o]

C24_MemberStep ==
    \A p \in Procs :
        (Acts(p) /\ req[p].kind = "invalidate" /\ roster' # roster) =>
            /\ credits' = credits
            /\ (hist[p].alone /\ ~hist[p].faulted) =>
                  get_credits(req[p].manager) = PreBalance(p, req[p].manager) + 1

C24_NoCompensation == []C24_MemberWriteFailed /\ [][C24_MemberStep]_vars

\* the update_item of the member row failed; the manager had 1 credit before
C24_Witness ==
    \E p \in Procs :
        /\ Done(p) /\ hist[p].alone /\ req[p].kind = "invalidate" /\ faults = 1
        /\ hist[p].detail = "Failed to update credits"
        /\ PreBalance(p, req[p].manager) = 1
        /\ get_credits(req[p].manager) = 2

\* the member rows of a manager whose credit has been restored
Restored(m) == {k \in 1..Len(roster[m]) : roster[m][k].credits = 0}

\* C25: invalidating the credit of an address whose member row (the row the
\* lookup finds) is Pending and holds less than 1 credit, without interference
\* and without a failed store call, is answered with 404 and writes nothing.
\* So, in a run without overlapping requests and failed calls, a row's credit
\* is restored once at most: every row holds 1 or 0 credits, and between
\* requests a manager's balance is what it was granted, minus 1 per member row,
\* plus 1 per row whose credit was restored.
C25_NoCreditsIs404 ==
    \A p \in Procs :
        (Clean(p) /\ req[p].kind = "invalidate" /\ Found(p) # 0
            /\ FoundRow(p).status = "Pending" /\ FoundRow(p).credits < 1) =>
            /\ hist[p].code = 404
            /\ hist[p].detail = "No credits found for team member"
            /\ NothingWritten(p)

C25_RestoredOnce ==
    (faults = 0 /\ overlaps = 0) =>
        \A m \in Managers :
            /\ \A k \in 1..Len(roster[m]) : roster[m][k].credits \in {0, 1}
            /\ (\A p \in Procs : pc[p] = "idle") =>
                  get_credits(m) = granted[m] - Len(roster[m]) + Cardinality(Restored(m))

C25_SecondInvalidationFails == C25_NoCreditsIs404 /\ C25_RestoredOnce

\* the second invalidation of a row, in a run of four requests one after the
\* other: a purchase, an invite, and the two invalidations
C25_Witness ==
    \E p \in Procs :
        /\ Clean(p) /\ req[p].kind = "invalidate" /\ hist[p].code = 404
        /\ faults = 0 /\ overlaps = 0
        /\ Found(p) # 0
        /\ FoundRow(p).status = "Pending" /\ FoundRow(p).credits = 0
        /\ get_credits(req[p].manager) = granted[req[p].manager]

\* the credits held by the member rows of a manager under other addresses
HeldByOthers(m, e) == SumCredits(SelectSeq(roster[m], LAMBDA r : r.email # e))

\* C26: while two invalidation requests for one address of one manager are
\* being served (no store call failing; the address has one Pending row
\* holding 1 credit when they arrive, the requests before them did not
\* overlap), the manager's balance never exceeds its value before the two
\* requests + 1, which is what the manager was granted minus the credits its
\* other members hold.
C26_SingleRefund ==
    \A p, q \in Procs :
        (p # q /\ faults = 0
            /\ req[p].kind = "invalidate" /\ req[q].kind = "invalidate"
            /\ req[p].manager = req[q].manager /\ req[p].email = req[q].email) =>
            get_credits(req[p].manager)
                <= granted[req[p].manager] - HeldByOthers(req[p].manager, req[p].email)

\* C27: an invite, run without interference, that is answered with an error,
\* whichever call failed, leaves the manager's balance and the Credits table
\* as they were: no credit stays debited without a member row holding it.
C27_FailedInviteKeepsBalance ==
    \A p \in Procs :
        (Done(p) /\ hist[p].alone /\ req[p].kind = "invite" /\ hist[p].code # 200) =>
            /\ get_credits(req[p].manager) = PreBalance(p, req[p].manager)
            /\ credits = hist[p].pre_credits

\* C28: the balance read answers 0 for a manager with no Credits row, and 0 as
\* well, not an error, when its query fails; otherwise the credits of the row
\* it reads; the route answers 200 in each case.  And no step of a read
\* (get-credits, list-members, the count of active members) changes the
\* Credits table or the roster.
C28_BalanceRead ==
    \A p \in Procs :
        /\ pc[p] = "gc_return" =>
              loc[p].new = (IF hist[p].faulted \/ credits[req[p].manager] = <<>>
                            THEN 0 ELSE credits[req[p].manager][1].credits)
        /\ (Done(p) /\ req[p].kind = "get_credits" /\ req[p].manager # NoEmail) =>
              /\ hist[p].code = 200
              /\ hist[p].alone => NothingWritten(p)

C28_ReadStep ==
    \A p \in Procs :
        (Acts(p) /\ (req[p].kind \in {"get_credits", "get_team_members", "buy"}
                     \/ req'[p].kind \in {"get_credits", "get_team_members", "buy"})) =>
            (credits' = credits /\ roster' = roster)

C28_ReadsDegradeAndWriteNothing == []C28_BalanceRead /\ [][C28_ReadStep]_vars

\* the query of a manager holding credits failed and the route answered 200
C28_Witness ==
    \E p \in Procs :
        /\ Done(p) /\ req[p].kind = "get_credits" /\ hist[p].code = 200
        /\ hist[p].faulted /\ hist[p].alone
        /\ loc[p].new = 0
        /\ get_credits(req[p].manager) >= 1

\* C29: a verified completed confirmation for N credits, run without
\* interference for a manager with a positive balance B, that is answered with
\* 200 although one of its store calls failed (the balance read, the only call
\* whose failure is not answered with an error) leaves the balance at B + N.
C29_DegradedReadKeepsBalance ==
    \A p \in Procs :
        (Done(p) /\ hist[p].alone /\ hist[p].faulted
            /\ req[p].kind = "webhook" /\ hist[p].verified /\ hist[p].code = 200
            /\ PreBalance(p, req[p].manager) >= 1) =>
            get_credits(req[p].manager) = PreBalance(p, req[p].manager) + req[p].amount

\* C30: CreditsDB.update_credits called for a manager who has no Credits row,
\* run without interference, raises and leaves the manager without a row; and
\* an invalidation for such a manager, run without interference, is answered
\* with an error and writes neither table: the member found keeps its credit.
C30_NoRecordSetBalanceFails ==
    \A p \in Procs :
        (Done(p) /\ hist[p].alone /\ req[p].kind \in {"update_credits", "invalidate"}
            /\ hist[p].pre_credits[req[p].manager] = <<>>) =>
            /\ hist[p].code # 200
            /\ credits[req[p].manager] = <<>>
            /\ NothingWritten(p)

\* an invalidation that passed its checks and failed at the ledger write
C30_Witness ==
    \E p \in Procs :
        /\ Clean(p) /\ req[p].kind = "invalidate"
        /\ hist[p].pre_credits[req[p].manager] = <<>>
        /\ Found(p) # 0
        /\ FoundRow(p).status = "Pending" /\ FoundRow(p).credits = 1
        /\ hist[p].code = 500
        /\ hist[p].detail = "No existing record found to update"
        /\ roster[req[p].manager][Found(p)].credits = 1

\* C31: when the checkout session is about to be created, the team size
\* taken is the number of the manager's member rows that are not Pending, the
\* discount is the rate of that size, and the amount of one credit, in
\* hundredths of the currency unit, is base_price * (1 - discount) * 100
\* whenever that is a whole number.
C31_UnitPrice ==
    \A p \in Procs :
        pc[p] = "buy_create" =>
            LET m == req[p].manager
                pending == {k \in 1..Len(roster[m]) : roster[m][k].status = "Pending"}
                rate == TierRate(Len(roster[m]) - Cardinality(pending))
                num == PriceDigits(loc[p].price_per_credit) * (100 - rate)
                den == Pow10(PriceDecimals(loc[p].price_per_credit))
            IN /\ loc[p].team_size = Len(roster[m]) - Cardinality(pending)
               /\ loc[p].discount = rate
               /\ num % den = 0 => loc[p].unit_amount = num \div den

\* a step of an invalidation request that writes its member row
InvalidationWrites(m) ==
    \E p \in Procs :
        /\ req[p].kind = "invalidate"
        /\ req[p].manager = m
        /\ pc[p] = "ivd_mupdate"
        /\ pc'[p] = "idle"

\* C32: no step of the invite, invalidation, notification, purchase
\* initiation or purchase confirmation workflows deletes a member record or
\* changes its manager, email or status; a record's credits change only in the
\* member write of an invalidation. So a manager's roster never gets shorter,
\* and every record the invite workflow has created is Pending after every
\* step of these workflows.
C32_RecordsKeptPending ==
    [][\A m \in Managers :
          /\ Len(roster'[m]) >= Len(roster[m])
          /\ \A k \in 1..Len(roster[m]) :
                \E j \in 1..Len(roster'[m]) :
                    /\ roster'[m][j].id = roster[m][k].id
                    /\ roster'[m][j].email = roster[m][k].email
                    /\ roster'[m][j].status = roster[m][k].status
                    /\ roster'[m][j].credits # roster[m][k].credits => InvalidationWrites(m)
          /\ \A j \in 1..Len(roster'[m]) : roster'[m][j].status = "Pending"]_vars

\* a notification about a member whose invite was invalidated has been sent:
\* the record is still there, Pending, holding no credit
C32_Witness ==
    \E p \in Procs :
        /\ Done(p)
        /\ req[p].kind = "notify"
        /\ hist[p].code = 200
        /\ \E k \in 1..Len(roster[req[p].manager]) :
              /\ roster[req[p].manager][k].email = req[p].email
              /\ roster[req[p].manager][k].status = "Pending"
              /\ roster[req[p].manager][k].credits = 0

\* C33: in every reachable state, whatever the interleaving of invite and
\* invalidation requests, every member record holds 0 or 1 credits.
C33_MemberCreditsZeroOrOne ==
    \A m \in Managers :
        \A k \in 1..Len(roster[m]) : roster[m][k].credits \in {0, 1}

\* an invalidation that was interleaved with an invite of the same manager has
\* written its member row, and the invite is still running
C33_Witness ==
    \E p \in Procs, q \in Procs :
        /\ Done(p)
        /\ req[p].kind = "invalidate"
        /\ hist[p].code = 200
        /\ ~hist[p].alone
        /\ pc[q] # "idle"
        /\ req[q].kind = "invite"
        /\ req[q].manager = req[p].manager
        /\ \E k \in 1..Len(roster[req[p].manager]) :
              /\ roster[req[p].manager][k].email = req[p].email
              /\ roster[req[p].manager][k].credits = 0

\* C34: once a Pending invite has been invalidated (the member row holds 0
\* credits, the manager has the credit back) the row is still Pending, so an
\* uninterrupted new invite of the same address under the same manager is
\* answered 409 and writes nothing, whatever the manager's balance; an invite
\* that succeeds is an invite of an address the manager had no row of.
C34_InvalidatedAddressStaysTaken ==
    \A p \in Procs :
        (Clean(p) /\ req[p].kind = "invite") =>
            LET m == req[p].manager
                rows == RowsOf(p, m, req[p].email)
            IN /\ (\E k \in rows : hist[p].pre_roster[m][k].credits = 0) =>
                     /\ hist[p].code = 409
                     /\ roster = hist[p].pre_roster
                     /\ credits = hist[p].pre_credits
               /\ hist[p].code = 200 => rows = {}

\* the manager has a credit and the address has an invalidated row: the new
\* invite of that address has been refused
C34_Witness ==
    \E p \in Procs :
        /\ Clean(p)
        /\ req[p].kind = "invite"
        /\ hist[p].code = 409
        /\ PreBalance(p, req[p].manager) >= 1
        /\ \E k \in RowsOf(p, req[p].manager, req[p].email) :
              hist[p].pre_roster[req[p].manager][k].credits = 0

====
